---- MODULE Spec2Model ----
(***************************************************************************)
(* tape~ : the Airwindows Tape saturation external for Pure Data           *)
(* (externals-src/airwindows pd emulation /tape.c).                        *)
(*                                                                         *)
(* FLOAT (double) values are carried as fixed-point integers with SCALE    *)
(* units per 1.0, together with the three IEEE special values +Inf, -Inf   *)
(* and NaN, so that a division by zero or sin(Inf) yields what the C build *)
(* yields.  Products and quotients are truncated toward zero on the        *)
(* magnitude, which keeps every operation odd in its sign, as in IEEE      *)
(* arithmetic.  The arithmetic is written as functions, f[a, b], so that   *)
(* an argument is evaluated once, as a C expression evaluates it.          *)
(*                                                                         *)
(* Spec is the object as Pd drives it: tape_new, then "dsp" messages and   *)
(* blocks through tape_perform.  SpecSpiral and SpecClip call the two      *)
(* static functions spiral_saturate and adclip on their own.               *)
(***************************************************************************)
EXTENDS Integers, Sequences, FiniteSets, TLC

(***************************************************************************)
(* FLOAT arithmetic                                                        *)
(***************************************************************************)
SCALE == 1000000
HALFSCALE == 1000
PosInf == 2000000000
NegInf == 0 - PosInf
NaN == 2100000000

IsNaN(a) == a = NaN
IsInf(a) == a = PosInf \/ a = NegInf
IsFin(a) == a > NegInf /\ a < PosInf

Abs(a) == IF a < 0 THEN 0 - a ELSE a

\* |a| * |b| / SCALE, truncated, computed in halves so that no product leaves
\* the 32-bit range of the model checker's integers
MulNat[a \in Int, b \in Int] ==
    LET ah == a \div HALFSCALE
        al == a % HALFSCALE
        bh == b \div HALFSCALE
        bl == b % HALFSCALE
    IN  ah * bh + ((ah * bl + al * bh + ((al * bl) \div HALFSCALE)) \div HALFSCALE)

\* long division: the quotient with k more decimal digits, truncated
DivDigits[q \in Int, r \in Int, d \in Int, k \in Int] ==
    IF k = 0 THEN q
    ELSE DivDigits[q * 10 + ((r * 10) \div d), (r * 10) % d, d, k - 1]

\* |a| / |b| in fixed point (6 decimal digits = SCALE)
DivNat[a \in Int, b \in Int] == DivDigits[a \div b, a % b, b, 6]

\* the sign of a product or quotient of two non-NaN values, zero counted positive
SignOf(a, b) == IF (a < 0) = (b < 0) THEN 1 ELSE 0 - 1

FNeg[a \in Int] == IF IsNaN(a) THEN NaN ELSE 0 - a

FAbs[a \in Int] == IF IsNaN(a) THEN NaN ELSE Abs(a)

FAdd[a \in Int, b \in Int] ==
    IF IsNaN(a) \/ IsNaN(b) THEN NaN
    ELSE IF IsInf(a) THEN (IF IsInf(b) /\ a # b THEN NaN ELSE a)
    ELSE IF IsInf(b) THEN b
    ELSE a + b

FSub[a \in Int, b \in Int] == FAdd[a, FNeg[b]]

FMul[a \in Int, b \in Int] ==
    IF IsNaN(a) \/ IsNaN(b) THEN NaN
    ELSE IF IsInf(a) \/ IsInf(b)
         THEN (IF a = 0 \/ b = 0 THEN NaN ELSE SignOf(a, b) * PosInf)
    ELSE SignOf(a, b) * MulNat[Abs(a), Abs(b)]

FDiv[a \in Int, b \in Int] ==
    IF IsNaN(a) \/ IsNaN(b) THEN NaN
    ELSE IF IsInf(a) THEN (IF IsInf(b) THEN NaN ELSE SignOf(a, b) * PosInf)
    ELSE IF IsInf(b) THEN 0
    ELSE IF b = 0 THEN (IF a = 0 THEN NaN ELSE SignOf(a, b) * PosInf)
    ELSE SignOf(a, b) * DivNat[Abs(a), Abs(b)]

\* the C comparisons: every comparison with a NaN is false
FGt(a, b) == ~IsNaN(a) /\ ~IsNaN(b) /\ a > b
FLt(a, b) == ~IsNaN(a) /\ ~IsNaN(b) /\ a < b
FGe(a, b) == ~IsNaN(a) /\ ~IsNaN(b) /\ a >= b
FLe(a, b) == ~IsNaN(a) /\ ~IsNaN(b) /\ a <= b
FEq(a, b) == ~IsNaN(a) /\ ~IsNaN(b) /\ a = b

(***************************************************************************)
(* <math.h>: sin, cos, tan, asin on FLOAT                                  *)
(***************************************************************************)
M_PI == 3141593
TWO_PI == 2 * M_PI
HALF_PI == M_PI \div 2

\* one Taylor factor: 1 - (y2 / k) * inner
TaylorStep[y2 \in Int, k \in Int, inner \in Int] == SCALE - MulNat[y2 \div k, inner]

AtMost[v \in Int, max \in Int] == IF v > max THEN max ELSE v
AtLeast[v \in Int, min \in Int] == IF v < min THEN min ELSE v

\* sin on [0, pi/2]: y (1 - y^2/6 (1 - y^2/20 (1 - y^2/42 (1 - y^2/72 (1 - y^2/110)))))
SinSeries[y \in Int, y2 \in Int] ==
    MulNat[y, TaylorStep[y2, 6, TaylorStep[y2, 20, TaylorStep[y2, 42,
              TaylorStep[y2, 72, TaylorStep[y2, 110, SCALE]]]]]]

SinTaylor[y \in Int] == AtMost[SinSeries[y, MulNat[y, y]], SCALE]

\* cos on [0, pi/2]: 1 - y^2/2 (1 - y^2/12 (1 - y^2/30 (1 - y^2/56 (1 - y^2/90 (1 - y^2/132)))))
CosSeries[y2 \in Int] ==
    TaylorStep[y2, 2, TaylorStep[y2, 12, TaylorStep[y2, 30, TaylorStep[y2, 56,
        TaylorStep[y2, 90, TaylorStep[y2, 132, SCALE]]]]]]

CosTaylor[y \in Int] == AtLeast[CosSeries[MulNat[y, y]], 0]

\* sin of a finite argument: reduce |x| modulo 2 pi, fold onto [0, pi/2]
SinFix[x \in Int] ==
    LET m == Abs(x) % TWO_PI
        h == IF m > M_PI THEN m - M_PI ELSE m
        y == IF h > HALF_PI THEN M_PI - h ELSE h
    IN  IF (x < 0) # (m > M_PI) THEN 0 - SinTaylor[y] ELSE SinTaylor[y]

CosFix[x \in Int] ==
    LET m == Abs(x) % TWO_PI
        h == IF m > M_PI THEN TWO_PI - m ELSE m
    IN  IF h > HALF_PI THEN 0 - CosTaylor[M_PI - h] ELSE CosTaylor[h]

\* asin on [0, 1]: the least a in [lo, hi] with sin(a) >= y, by bisection
AsinBisect[y \in Int, lo \in Int, hi \in Int] ==
    IF lo >= hi THEN lo
    ELSE IF SinTaylor[(lo + hi) \div 2] >= y
         THEN AsinBisect[y, lo, (lo + hi) \div 2]
         ELSE AsinBisect[y, ((lo + hi) \div 2) + 1, hi]

AsinFix[y \in Int] ==
    IF y >= SCALE THEN HALF_PI
    ELSE IF y <= 0 - SCALE THEN 0 - HALF_PI
    ELSE IF y < 0 THEN 0 - AsinBisect[0 - y, 0, HALF_PI]
    ELSE AsinBisect[y, 0, HALF_PI]

FSin[a \in Int] == IF IsFin(a) THEN SinFix[a] ELSE NaN
FCos[a \in Int] == IF IsFin(a) THEN CosFix[a] ELSE NaN
FTan[a \in Int] == IF IsFin(a) THEN FDiv[SinFix[a], CosFix[a]] ELSE NaN
FAsin[a \in Int] == IF IsFin(a) /\ Abs(a) <= SCALE THEN AsinFix[a] ELSE NaN

(***************************************************************************)
(* tape.c: constants                                                       *)
(***************************************************************************)
INPUT_GAIN == 1000000          \* 1.0
HEAD_BUMP == 50000             \* 0.05
SPIRAL_MAX == 1253314          \* 1.2533141373155
softness == 618034             \* 0.618033988749894848204586
CLIP == 990000                 \* 0.99
REF_RATE == 44100              \* 44100.0
HEAD_DRIVE == 50000            \* 0.05, the head bump integrator's input gain
BUMP_FREQ == 120000            \* 0.12
BIQUAD_FREQ == 7200            \* 0.0072
biquadQ == 900                 \* 0.0009
SOFTEN_MAX == 1570796          \* 1.57079633
SUPPRESS == 130                \* 0.00013
ONE == SCALE                   \* 1.0

\* the single element of a one-element set: binds a value once it is computed
Only(S) == CHOOSE r \in S : TRUE

(***************************************************************************)
(* spiral_saturate, lines 42-53                                            *)
(***************************************************************************)
\* a faulty variant: the clamp at the negative bound (line 46) is missing
spiral_saturate_unclamped_below(input) ==
    LET in1 == IF FGt(input, SPIRAL_MAX) THEN SPIRAL_MAX ELSE input
    IN  IF FEq(FAbs[in1], 0) THEN 0
        ELSE FDiv[FSin[FMul[in1, FAbs[in1]]], FAbs[in1]]

spiral_saturate(input) ==
    LET in1 == IF FGt(input, SPIRAL_MAX) THEN SPIRAL_MAX ELSE input
        in2 == IF FLt(in1, FNeg[SPIRAL_MAX]) THEN FNeg[SPIRAL_MAX] ELSE in1
    IN  IF FEq(FAbs[in2], 0) THEN 0
        ELSE FDiv[FSin[FMul[in2, FAbs[in2]]], FAbs[in2]]

(***************************************************************************)
(* adclip, lines 57-87: the new *lastSample, which is the value returned   *)
(***************************************************************************)
\* (+-0.99 * softness) + (v * (1.0 - softness))
Blend[bound \in Int, v \in Int] ==
    FAdd[FMul[bound, softness], FMul[v, FSub[ONE, softness]]]

\* lines 61-71: *lastSample before input is looked at
AdclipMemory[input \in Int, lastSample \in Int] ==
    LET l1 == IF FGe(lastSample, CLIP)
              THEN (IF FLt(input, CLIP) THEN Blend[CLIP, input] ELSE CLIP)
              ELSE lastSample
    IN  IF FLe(l1, FNeg[CLIP])
        THEN (IF FGt(input, FNeg[CLIP]) THEN Blend[FNeg[CLIP], input] ELSE FNeg[CLIP])
        ELSE l1

\* lines 73-83: input against that memory
AdclipInput[input \in Int, mem \in Int] ==
    LET i1 == IF FGt(input, CLIP)
              THEN (IF FLt(mem, CLIP) THEN Blend[CLIP, mem] ELSE CLIP)
              ELSE input
    IN  IF FLt(i1, FNeg[CLIP])
        THEN (IF FGt(mem, FNeg[CLIP]) THEN Blend[FNeg[CLIP], mem] ELSE FNeg[CLIP])
        ELSE i1

\* a faulty variant: lines 75 and 81 blend the input itself, not the memory
adclip_blending_input(input, lastSample) ==
    LET mem == AdclipMemory[input, lastSample]
    IN  IF FGt(input, CLIP)
        THEN (IF FLt(mem, CLIP) THEN Blend[CLIP, input] ELSE CLIP)
        ELSE IF FLt(input, FNeg[CLIP])
        THEN (IF FGt(mem, FNeg[CLIP]) THEN Blend[FNeg[CLIP], input] ELSE FNeg[CLIP])
        ELSE input

adclip(input, lastSample) == AdclipInput[input, AdclipMemory[input, lastSample]]

(***************************************************************************)
(* tape_perform, lines 121-135: the per-block coefficients                 *)
(***************************************************************************)
\* x_sr / 44100.0; x_sr is kept in Hz
OverallScale[x_sr \in Int] == SignOf(x_sr, 1) * DivNat[Abs(x_sr), REF_RATE]

\* line 129
BiquadK[overallscale \in Int] == FTan[FMul[M_PI, FDiv[BIQUAD_FREQ, overallscale]]]

\* line 130
BiquadNorm[K \in Int] == FDiv[ONE, FAdd[FAdd[ONE, FDiv[K, biquadQ]], FMul[K, K]]]

BiquadCoefficients[K \in Int, norm \in Int] ==
    [ a0 |-> FMul[FDiv[K, biquadQ], norm],
      a1 |-> 0,
      a2 |-> FNeg[FMul[FDiv[K, biquadQ], norm]],
      b1 |-> FMul[FMul[2 * ONE, FSub[FMul[K, K], ONE]], norm],
      b2 |-> FMul[FAdd[FSub[ONE, FDiv[K, biquadQ]], FMul[K, K]], norm] ]

Coefficients[x_sr \in Int] ==
    [ RollAmount |-> FDiv[FSub[ONE, softness], OverallScale[x_sr]],
      HeadBumpFreq |-> FDiv[BUMP_FREQ, OverallScale[x_sr]],
      bq |-> BiquadCoefficients[BiquadK[OverallScale[x_sr]],
                                BiquadNorm[BiquadK[OverallScale[x_sr]]]] ]

\* lines 137-141 for one array
StoreCoefficients(bq, c) ==
    [bq EXCEPT ![2] = c.a0, ![3] = c.a1, ![4] = c.a2, ![5] = c.b1, ![6] = c.b2]

(***************************************************************************)
(* tape_new, lines 90-111                                                  *)
(***************************************************************************)
\* pd_new hands out zeroed memory; x_sr is not read before tape_dsp stores a rate
\* a faulty variant: flip starts true
NewTapeFlipSet ==
    [ x_sr |-> 0,
      iirMidRollerA |-> 0, iirMidRollerB |-> 0,
      iirHeadBumpA |-> 0, iirHeadBumpB |-> 0,
      biquadA |-> [i \in 0..8 |-> 0],
      biquadB |-> [i \in 0..8 |-> 0],
      lastSample |-> 0,
      flip |-> 1 ]

NewTape ==
    [ x_sr |-> 0,
      iirMidRollerA |-> 0, iirMidRollerB |-> 0,
      iirHeadBumpA |-> 0, iirHeadBumpB |-> 0,
      biquadA |-> [i \in 0..8 |-> 0],
      biquadB |-> [i \in 0..8 |-> 0],
      lastSample |-> 0,
      flip |-> 0 ]

(***************************************************************************)
(* tape_perform, lines 114-227, statement by statement.  m holds the       *)
(* object's fields, the locals, the in and out vectors, and pc, the source *)
(* line about to run.  derivedFrom records the x_sr read at line 121, and  *)
(* phases, coefs, bumped and clipped record, per sample, the branch taken  *)
(* at line 155, the coefficients the biquad read (a0, a1, a2, b1, b2),     *)
(* adclip's argument and adclip's return value; snaps records the object   *)
(* on entry and after each sample.                                         *)
(***************************************************************************)
\* the t_tape fields of m
Object(m) == [f \in DOMAIN NewTape |-> m[f]]

\* a faulty variant: flip is cleared on entry
EnterClearingFlip(x, in) ==
    [x EXCEPT !.flip = 0] @@
         [ pc |-> 121, in |-> in, n |-> Len(in), out |-> << >>,
           RollAmount |-> 0, HeadBumpFreq |-> 0,
           inputSample |-> 0, HighsSample |-> 0, tempSample |-> 0,
           applySoften |-> 0, suppress |-> 0,
           derivedFrom |-> 0, phases |-> << >>, coefs |-> << >>,
           bumped |-> << >>, clipped |-> << >>, snaps |-> <<x>> ]

Enter(x, in) ==
    x @@ [ pc |-> 121, in |-> in, n |-> Len(in), out |-> << >>,
           RollAmount |-> 0, HeadBumpFreq |-> 0,
           inputSample |-> 0, HighsSample |-> 0, tempSample |-> 0,
           applySoften |-> 0, suppress |-> 0,
           derivedFrom |-> 0, phases |-> << >>, coefs |-> << >>,
           bumped |-> << >>, clipped |-> << >>, snaps |-> <<x>> ]

\* a faulty variant: one mid roller shared by both phases
MidRollerStmtShared(m, mid, next) ==
    [m EXCEPT !.iirMidRollerA = FAdd[FMul[m[mid], FSub[ONE, m.RollAmount]],
                                     FMul[m.inputSample, m.RollAmount]],
              !.iirMidRollerB = FAdd[FMul[m[mid], FSub[ONE, m.RollAmount]],
                                     FMul[m.inputSample, m.RollAmount]],
              !.pc = next]

\* lines 158 and 178
MidRollerStmt(m, mid, next) ==
    [m EXCEPT ![mid] = FAdd[FMul[m[mid], FSub[ONE, m.RollAmount]],
                            FMul[m.inputSample, m.RollAmount]],
              !.pc = next]

\* lines 158-174 (k = 1..12 on the A fields) and 178-192 (on the B fields)
PhaseStmt(m, k, mid, hb, bq, next) ==
    CASE k = 1 -> MidRollerStmt(m, mid, next)
      [] k = 2 -> [m EXCEPT !.HighsSample = FSub[m.inputSample, m[mid]], !.pc = next]
      [] k = 3 -> [m EXCEPT ![hb] = FAdd[m[hb], FMul[m.inputSample, HEAD_DRIVE]], !.pc = next]
      [] k = 4 -> [m EXCEPT ![hb] = FSub[m[hb], FMul[FMul[FMul[m[hb], m[hb]], m[hb]],
                                                    m.HeadBumpFreq]],
                            !.pc = next]
      [] k = 5 -> [m EXCEPT ![hb] = FSin[m[hb]], !.pc = next]
      [] k = 6 -> [m EXCEPT !.tempSample = FAdd[FMul[m[hb], m[bq][2]], m[bq][7]],
                            !.coefs = Append(@, [i \in 2..6 |-> m[bq][i]]),
                            !.pc = next]
      [] k = 7 -> [m EXCEPT ![bq][7] = FAdd[FSub[FMul[m[hb], m[bq][3]],
                                                FMul[m.tempSample, m[bq][5]]], m[bq][8]],
                            !.pc = next]
      [] k = 8 -> [m EXCEPT ![bq][8] = FSub[FMul[m[hb], m[bq][4]],
                                           FMul[m.tempSample, m[bq][6]]],
                            !.pc = next]
      [] k = 9 -> [m EXCEPT ![hb] = m.tempSample, !.pc = next]
      [] k = 10 -> [m EXCEPT ![hb] = IF FGt(m[hb], ONE) THEN ONE ELSE @, !.pc = next]
      [] k = 11 -> [m EXCEPT ![hb] = IF FLt(m[hb], FNeg[ONE]) THEN FNeg[ONE] ELSE @,
                             !.pc = next]
      [] k = 12 -> [m EXCEPT ![hb] = FAsin[m[hb]], !.pc = next]

\* lines 208-211: if (hb > suppress) hb -= suppress, if (hb < -suppress) hb += suppress
RestrainHi(m, hb, next) ==
    [m EXCEPT ![hb] = IF FGt(m[hb], m.suppress) THEN FSub[m[hb], m.suppress] ELSE @,
              !.pc = next]
RestrainLo(m, hb, next) ==
    [m EXCEPT ![hb] = IF FLt(m[hb], FNeg[m.suppress]) THEN FAdd[m[hb], m.suppress] ELSE @,
              !.pc = next]

\* line 217
AdclipStmt(m, ret) ==
    [m EXCEPT !.bumped = Append(@, m.inputSample),
              !.clipped = Append(@, ret),
              !.lastSample = ret,
              !.inputSample = ret,
              !.pc = 220]

\* a faulty variant: coefficients already stored are kept
CoefficientStmtCached(m, co) ==
    IF m.biquadA[2] # 0
    THEN [m EXCEPT !.derivedFrom = m.x_sr,
                   !.RollAmount = co.RollAmount,
                   !.HeadBumpFreq = co.HeadBumpFreq,
                   !.pc = 143]
    ELSE [m EXCEPT !.derivedFrom = m.x_sr,
                   !.RollAmount = co.RollAmount,
                   !.HeadBumpFreq = co.HeadBumpFreq,
                   !.biquadA = StoreCoefficients(@, co.bq),
                   !.biquadB = StoreCoefficients(@, co.bq),
                   !.pc = 143]

\* lines 121-141
CoefficientStmt(m, co) ==
    [m EXCEPT !.derivedFrom = m.x_sr,
              !.RollAmount = co.RollAmount,
              !.HeadBumpFreq = co.HeadBumpFreq,
              !.biquadA = StoreCoefficients(@, co.bq),
              !.biquadB = StoreCoefficients(@, co.bq),
              !.pc = 143]

Stmt(m) ==
    CASE m.pc = 121 -> Only({CoefficientStmt(m, co) : co \in {Coefficients[m.x_sr]}})
      [] m.pc = 143 -> [m EXCEPT !.n = @ - 1, !.pc = IF m.n # 0 THEN 145 ELSE 226]
      [] m.pc = 145 -> [m EXCEPT !.inputSample = Head(m.in), !.in = Tail(@), !.pc = 149]
      [] m.pc = 149 -> [m EXCEPT !.inputSample = FMul[@, INPUT_GAIN], !.pc = 151]
      [] m.pc = 151 -> [m EXCEPT !.HighsSample = 0, !.pc = 155]
      [] m.pc = 155 -> IF m.flip # 0
                       THEN [m EXCEPT !.phases = Append(@, "A"), !.pc = 158]
                       ELSE [m EXCEPT !.phases = Append(@, "B"), !.pc = 178]
      [] m.pc = 158 -> PhaseStmt(m, 1, "iirMidRollerA", "iirHeadBumpA", "biquadA", 159)
      [] m.pc = 159 -> PhaseStmt(m, 2, "iirMidRollerA", "iirHeadBumpA", "biquadA", 162)
      [] m.pc = 162 -> PhaseStmt(m, 3, "iirMidRollerA", "iirHeadBumpA", "biquadA", 163)
      [] m.pc = 163 -> PhaseStmt(m, 4, "iirMidRollerA", "iirHeadBumpA", "biquadA", 164)
      [] m.pc = 164 -> PhaseStmt(m, 5, "iirMidRollerA", "iirHeadBumpA", "biquadA", 167)
      [] m.pc = 167 -> PhaseStmt(m, 6, "iirMidRollerA", "iirHeadBumpA", "biquadA", 168)
      [] m.pc = 168 -> PhaseStmt(m, 7, "iirMidRollerA", "iirHeadBumpA", "biquadA", 169)
      [] m.pc = 169 -> PhaseStmt(m, 8, "iirMidRollerA", "iirHeadBumpA", "biquadA", 170)
      [] m.pc = 170 -> PhaseStmt(m, 9, "iirMidRollerA", "iirHeadBumpA", "biquadA", 172)
      [] m.pc = 172 -> PhaseStmt(m, 10, "iirMidRollerA", "iirHeadBumpA", "biquadA", 173)
      [] m.pc = 173 -> PhaseStmt(m, 11, "iirMidRollerA", "iirHeadBumpA", "biquadA", 174)
      [] m.pc = 174 -> PhaseStmt(m, 12, "iirMidRollerA", "iirHeadBumpA", "biquadA", 194)
      [] m.pc = 178 -> PhaseStmt(m, 1, "iirMidRollerB", "iirHeadBumpB", "biquadB", 179)
      [] m.pc = 179 -> PhaseStmt(m, 2, "iirMidRollerB", "iirHeadBumpB", "biquadB", 181)
      [] m.pc = 181 -> PhaseStmt(m, 3, "iirMidRollerB", "iirHeadBumpB", "biquadB", 182)
      [] m.pc = 182 -> PhaseStmt(m, 4, "iirMidRollerB", "iirHeadBumpB", "biquadB", 183)
      [] m.pc = 183 -> PhaseStmt(m, 5, "iirMidRollerB", "iirHeadBumpB", "biquadB", 185)
      [] m.pc = 185 -> PhaseStmt(m, 6, "iirMidRollerB", "iirHeadBumpB", "biquadB", 186)
      [] m.pc = 186 -> PhaseStmt(m, 7, "iirMidRollerB", "iirHeadBumpB", "biquadB", 187)
      [] m.pc = 187 -> PhaseStmt(m, 8, "iirMidRollerB", "iirHeadBumpB", "biquadB", 188)
      [] m.pc = 188 -> PhaseStmt(m, 9, "iirMidRollerB", "iirHeadBumpB", "biquadB", 190)
      [] m.pc = 190 -> PhaseStmt(m, 10, "iirMidRollerB", "iirHeadBumpB", "biquadB", 191)
      [] m.pc = 191 -> PhaseStmt(m, 11, "iirMidRollerB", "iirHeadBumpB", "biquadB", 192)
      [] m.pc = 192 -> PhaseStmt(m, 12, "iirMidRollerB", "iirHeadBumpB", "biquadB", 194)
      [] m.pc = 194 -> [m EXCEPT !.flip = IF @ # 0 THEN 0 ELSE 1, !.pc = 197]
      [] m.pc = 197 -> [m EXCEPT !.applySoften = FMul[FAbs[m.HighsSample], SOFTEN_MAX],
                                 !.pc = 198]
      [] m.pc = 198 -> [m EXCEPT !.applySoften = IF FGt(@, SOFTEN_MAX) THEN SOFTEN_MAX ELSE @,
                                 !.pc = 199]
      [] m.pc = 199 -> [m EXCEPT !.applySoften = FSub[ONE, FCos[@]], !.pc = 200]
      [] m.pc = 200 -> [m EXCEPT !.inputSample = IF FGt(m.HighsSample, 0)
                                                 THEN FSub[@, m.applySoften] ELSE @,
                                 !.pc = 201]
      [] m.pc = 201 -> [m EXCEPT !.inputSample = IF FLt(m.HighsSample, 0)
                                                 THEN FAdd[@, m.applySoften] ELSE @,
                                 !.pc = 204]
      [] m.pc = 204 -> [m EXCEPT !.inputSample = spiral_saturate(@), !.pc = 207]
      [] m.pc = 207 -> [m EXCEPT !.suppress = FMul[FSub[ONE, FAbs[m.inputSample]], SUPPRESS],
                                 !.pc = 208]
      [] m.pc = 208 -> RestrainHi(m, "iirHeadBumpA", 209)
      [] m.pc = 209 -> RestrainLo(m, "iirHeadBumpA", 210)
      [] m.pc = 210 -> RestrainHi(m, "iirHeadBumpB", 211)
      [] m.pc = 211 -> RestrainLo(m, "iirHeadBumpB", 214)
      [] m.pc = 214 -> [m EXCEPT !.inputSample =
                                    FAdd[@, FMul[FAdd[m.iirHeadBumpA, m.iirHeadBumpB], HEAD_BUMP]],
                                 !.pc = 217]
      [] m.pc = 217 -> Only({AdclipStmt(m, ret) : ret \in {adclip(m.inputSample, m.lastSample)}})
      [] m.pc = 220 -> [m EXCEPT !.inputSample = IF FGt(@, CLIP) THEN CLIP ELSE @, !.pc = 221]
      [] m.pc = 221 -> [m EXCEPT !.inputSample = IF FLt(@, FNeg[CLIP]) THEN FNeg[CLIP] ELSE @,
                                 !.pc = 223]
      [] m.pc = 223 -> [m EXCEPT !.out = Append(@, m.inputSample),
                                 !.snaps = Append(@, Object(m)),
                                 !.pc = 143]

\* in and out are t_float vectors (lines 117-118); the narrowing of FLOAT to t_float
\* at line 223 is finer than one unit of SCALE and leaves the fixed-point value as it is

\* run at most 2^j statements from m.pc, stopping at the return at line 226
RECURSIVE Steps(_, _)
Steps(m, j) ==
    IF m.pc = 226 THEN m
    ELSE IF j = 0 THEN Stmt(m)
    ELSE Only({Steps(m2, j - 1) : m2 \in {Steps(m, j - 1)}})

\* run from m.pc to the return (a block of n samples is 34 n + 2 statements)
Exec(m) == Steps(m, 12)

\* the whole call on object x with the in vector: the object, the out vector and
\* the per-sample records when it returns
tape_perform_block(x, in) == Only({Exec(m) : m \in {Enter(x, in)}})

(***************************************************************************)
(* The host: what it may hand to the object                                *)
(***************************************************************************)
MaxBlock == 2        \* longest block (s_n)
MaxSamples == 4      \* samples processed since tape_new
MaxDsp == 2          \* "dsp" messages since tape_new

\* sample rates the host may report (Hz); tape_dsp stores whatever it is given
Rates == {0, 44100, 96000}

\* input samples: 40.0, 0.1, -1.0
Samples == {40 * SCALE, SCALE \div 10, 0 - SCALE}

RECURSIVE SeqsUpTo(_, _)
SeqsUpTo(S, n) ==
    IF n = 0 THEN {<< >>}
    ELSE LET shorter == SeqsUpTo(S, n - 1)
         IN  shorter \cup {Append(q, v) : q \in {t \in shorter : Len(t) = n - 1}, v \in S}

Blocks == SeqsUpTo(Samples, MaxBlock)

(***************************************************************************)
(* State                                                                   *)
(***************************************************************************)
VARIABLES
    x,          \* the t_tape object
    onChain,    \* tape_perform has been put on the DSP chain (dsp_add)
    lastOp,     \* the method that ran last: "new", "dsp" or "perform"
    rates,      \* the rates tape_dsp was given, in order, since tape_new
    rateUsed,   \* the x_sr the last tape_perform read at line 121
    out,        \* the out vector the last tape_perform wrote
    snaps,      \* the object on entry to the last tape_perform and after each sample
    coefs,      \* per sample of the last block, the coefficients the biquad read
    bumped,     \* per sample of the last block, the value handed to adclip
    clipped,    \* per sample of the last block, the value adclip returned
    phases,     \* per sample since tape_new, the phase whose branch ran
    base,       \* the object as the last tape_dsp left it
    ins,        \* the samples read since the last tape_dsp
    outs,       \* the samples written since the last tape_dsp
    probe       \* direct calls of spiral_saturate or adclip: argument, result, memory

objvars == <<x, onChain, lastOp, rates, rateUsed, out, snaps, coefs, bumped, clipped,
             phases, base, ins, outs>>
vars == <<objvars, probe>>

\* no direct call made yet; adclip's memory starts at 0
Idle == [op |-> "none", input |-> 0, ret |-> 0, lastSample |-> 0, calls |-> 0,
         constant |-> TRUE]

Init ==
    /\ x = NewTape
    /\ onChain = FALSE
    /\ lastOp = "new"
    /\ rates = << >>
    /\ rateUsed = 0
    /\ out = << >>
    /\ snaps = << >>
    /\ coefs = << >>
    /\ bumped = << >>
    /\ clipped = << >>
    /\ phases = << >>
    /\ base = NewTape
    /\ ins = << >>
    /\ outs = << >>
    /\ probe = Idle

\* a faulty variant: the "dsp" message also clears the object's memory
tape_dsp_clearing(s_sr) ==
    /\ Len(rates) < MaxDsp
    /\ x' = [NewTape EXCEPT !.x_sr = s_sr]
    /\ onChain' = TRUE
    /\ lastOp' = "dsp"
    /\ rates' = Append(rates, s_sr)
    /\ base' = x'
    /\ ins' = << >>
    /\ outs' = << >>
    /\ UNCHANGED <<rateUsed, out, snaps, coefs, bumped, clipped, phases, probe>>

\* lines 230-234: store the rate, put tape_perform on the chain
tape_dsp(s_sr) ==
    /\ Len(rates) < MaxDsp
    /\ x' = [x EXCEPT !.x_sr = s_sr]
    /\ onChain' = TRUE
    /\ lastOp' = "dsp"
    /\ rates' = Append(rates, s_sr)
    /\ base' = x'
    /\ ins' = << >>
    /\ outs' = << >>
    /\ UNCHANGED <<rateUsed, out, snaps, coefs, bumped, clipped, phases, probe>>

\* lines 114-227: one block; it runs only once tape_dsp has put it on the chain
tape_perform(in) ==
    /\ onChain
    /\ Len(phases) + Len(in) <= MaxSamples
    /\ \E m \in {tape_perform_block(x, in)} :
           /\ x' = Object(m)
           /\ rateUsed' = m.derivedFrom
           /\ out' = m.out
           /\ snaps' = m.snaps
           /\ coefs' = m.coefs
           /\ bumped' = m.bumped
           /\ clipped' = m.clipped
           /\ phases' = phases \o m.phases
           /\ outs' = outs \o m.out
    /\ ins' = ins \o in
    /\ lastOp' = "perform"
    /\ UNCHANGED <<onChain, rates, base, probe>>

Next ==
    \/ \E s_sr \in Rates : tape_dsp(s_sr)
    \/ \E in \in Blocks : tape_perform(in)

Spec == Init /\ [][Next]_vars

(***************************************************************************)
(* spiral_saturate called directly, over a grid of arguments               *)
(***************************************************************************)
SpiralGrid == 200                 \* grid points on each side of 0
SpiralStep == SCALE \div 100      \* 0.01 between grid points

SpiralInputs ==
    {k * SpiralStep : k \in (0 - SpiralGrid)..SpiralGrid} \cup {SPIRAL_MAX, 0 - SPIRAL_MAX}

SpiralCall(v) ==
    /\ probe' = [Idle EXCEPT !.op = "spiral_saturate", !.input = v,
                             !.ret = spiral_saturate(v)]
    /\ UNCHANGED objvars

NextSpiral == \E v \in SpiralInputs : SpiralCall(v)

SpecSpiral == Init /\ [][NextSpiral]_vars

(***************************************************************************)
(* adclip called repeatedly on one memory cell that starts at 0            *)
(***************************************************************************)
MaxClipCalls == 8

\* 1.0, -1.0, 0.5, 0.99, 1000.0, -1000.0
ClipInputs == {ONE, 0 - ONE, SCALE \div 2, CLIP, 1000 * SCALE, 0 - (1000 * SCALE)}

\* lines 85-86: *lastSample = input; return input
ClipCall(v) ==
    /\ probe.calls < MaxClipCalls
    /\ \E ret \in {adclip(v, probe.lastSample)} :
           probe' = [op |-> "adclip", input |-> v, ret |-> ret, lastSample |-> ret,
                     calls |-> probe.calls + 1,
                     constant |-> probe.constant /\ v = ONE]
    /\ UNCHANGED objvars

NextClip == \E v \in ClipInputs : ClipCall(v)

SpecClip == Init /\ [][NextClip]_vars

(***************************************************************************)
(* Properties                                                              *)
(***************************************************************************)
InRange(v) == FGe(v, FNeg[CLIP]) /\ FLe(v, CLIP)

\* the fields tape_dsp has no business with: everything but x_sr
Memory(o) == [f \in DOMAIN NewTape \ {"x_sr"} |-> o[f]]

\* the phase whose branch ran for the i-th sample of the last block
PhaseOfSample(i) == phases[Len(phases) - (Len(snaps) - 1) + i]

\* the other phase's mid roller and biquad delay memory are the same in p and q
OtherPhaseKept(ph, p, q) ==
    IF ph = "B"
    THEN /\ q.iirMidRollerA = p.iirMidRollerA
         /\ q.biquadA[7] = p.biquadA[7]
         /\ q.biquadA[8] = p.biquadA[8]
    ELSE /\ q.iirMidRollerB = p.iirMidRollerB
         /\ q.biquadB[7] = p.biquadB[7]
         /\ q.biquadB[8] = p.biquadB[8]

\* a0, a1, a2, b1, b2 as they sit in slots 2..6 of a biquad array
Slots(c) == [i \in 2..6 |->
                CASE i = 2 -> c.a0 [] i = 3 -> c.a1 [] i = 4 -> c.a2
                  [] i = 5 -> c.b1 [] i = 6 -> c.b2]

CountOf(ph, i, j) == Cardinality({k \in i..j : phases[k] = ph})

\* C1: every output sample tape_perform writes lies in [-0.99, 0.99]
C1_OutputInRange == \A i \in 1..Len(out) : InRange(out[i])

\* C1, restricted to objects whose every stored rate was > 0
C1_OutputInRangeAtPositiveRates ==
    (\A i \in 1..Len(rates) : rates[i] > 0) => \A i \in 1..Len(out) : InRange(out[i])

\* C2: the samples read since the rate was stored, processed as one block from the
\* object as it then was, give the outputs and the final object that the blocks
\* actually run (of any lengths) have given
C2_BlockSizeInvariance ==
    \A m \in {tape_perform_block(base, ins)} :
        (ins # << >>) => (m.out = outs /\ Object(m) = x)

C2_Witness ==
    /\ x.x_sr = 96000
    /\ Len(ins) = 3
    /\ Len(out) = 1
    /\ InRange(outs[3]) /\ outs[3] # 0
    /\ outs[3] # outs[2]

\* C3: each sample runs the branch of exactly one phase and leaves the other phase's
\* mid roller and biquad delay memory as they were; the phase alternates from sample to
\* sample, so any N consecutive samples count floor(N/2) or ceil(N/2) of each phase
C3_OnePhasePerSample ==
    /\ \A i \in 1..(Len(snaps) - 1) :
           OtherPhaseKept(PhaseOfSample(i), snaps[i], snaps[i + 1])
    /\ \A i \in 1..(Len(phases) - 1) : phases[i] # phases[i + 1]
    /\ \A i \in 1..Len(phases) : \A j \in i..Len(phases) :
           \A ph \in {"A", "B"} :
               CountOf(ph, i, j) \in {(j - i + 1) \div 2, (j - i + 1) - (j - i + 1) \div 2}

C3_Witness ==
    /\ Len(phases) = 3
    /\ Len(snaps) = 3
    /\ PhaseOfSample(1) = "A" /\ PhaseOfSample(2) = "B"
    /\ snaps[1].iirMidRollerB # 0 /\ IsFin(snaps[1].iirMidRollerB)
    /\ snaps[1].biquadB[7] # 0
    /\ snaps[2].iirMidRollerA # snaps[1].iirMidRollerA
    /\ snaps[3].iirMidRollerB # snaps[2].iirMidRollerB
    /\ snaps[3].biquadB[7] # snaps[2].biquadB[7]

\* C4: counted from tape_new, the k-th sample runs the B branch iff k is odd, whatever
\* the blocks the samples came in, and flip holds that parity
C4_ParitySinceConstruction ==
    /\ \A k \in 1..Len(phases) : (phases[k] = "B") <=> (k % 2 = 1)
    /\ x.flip = Len(phases) % 2

C4_Witness ==
    /\ Len(phases) = 4
    /\ Len(snaps) = 2
    /\ Len(ins) = 1
    /\ Len(rates) = 2
    /\ phases = <<"B", "A", "B", "A">>

\* C5: from memory 0, every value adclip returns lies strictly between -1 and 1; on the
\* constant input 1.0 the memory closes in on 0.99 (the gap at least halves with every
\* call) and is below 0.99 after every call
C5_ClipperBounded ==
    (probe.op = "adclip") =>
        /\ FGt(probe.ret, FNeg[ONE]) /\ FLt(probe.ret, ONE)
        /\ probe.constant =>
              /\ FLt(probe.lastSample, CLIP)
              /\ CLIP - probe.lastSample <= (CLIP \div (2 ^ probe.calls)) + 4

C5_Witness ==
    /\ probe.op = "adclip"
    /\ probe.constant
    /\ probe.calls = 8
    /\ probe.lastSample > CLIP - (CLIP \div 1000)
    /\ probe.lastSample < CLIP

\* C6: the coefficients stored for A and for B are the same, and every sample of a
\* block is filtered with the coefficients derived from the x_sr the object holds at
\* that call, which are also the ones left in both arrays
C6_CoefficientsCurrent ==
    /\ \A i \in 2..6 : x.biquadA[i] = x.biquadB[i]
    /\ (lastOp = "perform") =>
          \A c \in {Slots(Coefficients[x.x_sr].bq)} :
              /\ \A i \in 1..Len(coefs) : coefs[i] = c
              /\ \A i \in 2..6 : x.biquadA[i] = c[i]

C6_Witness ==
    /\ lastOp = "perform"
    /\ rates = <<44100, 96000>>
    /\ Len(phases) > Len(ins)
    /\ Len(coefs) = 2
    /\ coefs[1] = Slots(Coefficients[96000].bq)
    /\ coefs[1] # Slots(Coefficients[44100].bq)
    /\ snaps[1].biquadA[2] = Coefficients[44100].bq.a0

\* C7: no tape_perform derives its coefficients from a stored rate <= 0
C7_RatePositiveWhenDerived == (lastOp = "perform") => rateUsed > 0

\* C8: tape_dsp changes x_sr and nothing else of the object, tape_perform never changes
\* x_sr, and a block starts from the object exactly as the previous step left it
C8_Frame ==
    [][ /\ (lastOp' = "dsp") => Memory(x') = Memory(x)
        /\ (lastOp' = "perform") => (x'.x_sr = x.x_sr /\ snaps'[1] = x) ]_vars

C8_Witness ==
    /\ lastOp = "perform"
    /\ rates = <<44100, 96000>>
    /\ Len(phases) = 3
    /\ Len(ins) = 2
    /\ snaps[1].x_sr = 96000
    /\ snaps[1].flip = 1
    /\ snaps[1].lastSample # 0
    /\ snaps[1].iirMidRollerB # 0
    /\ snaps[1].iirHeadBumpB # 0
    /\ snaps[1].biquadB[7] # 0

\* C9: spiral_saturate(-v) = -spiral_saturate(v), spiral_saturate(0) = 0, and an
\* argument beyond +-1.2533141373155 gives what the bound of its sign gives
C9_SpiralOdd ==
    (probe.op = "spiral_saturate") =>
        /\ spiral_saturate(FNeg[probe.input]) = FNeg[probe.ret]
        /\ (probe.input = 0) => (probe.ret = 0)
        /\ FGt(probe.input, SPIRAL_MAX) => (probe.ret = spiral_saturate(SPIRAL_MAX))
        /\ FLt(probe.input, FNeg[SPIRAL_MAX]) =>
               (probe.ret = spiral_saturate(FNeg[SPIRAL_MAX]))

C9_Witness ==
    /\ probe.op = "spiral_saturate"
    /\ probe.input = 0 - (2 * SCALE)
    /\ probe.ret < 0
    /\ probe.ret = FNeg[spiral_saturate(SPIRAL_MAX)]

\* C10: lastSample lies in [-0.99, 0.99] and is what adclip last returned; the clamp
\* at lines 220-221 changes no sample, so lastSample is the last sample written
C10_ClipperMemoryIsLastOutput ==
    /\ InRange(x.lastSample)
    /\ \A i \in 1..(Len(snaps) - 1) :
           /\ InRange(snaps[i + 1].lastSample)
           /\ snaps[i + 1].lastSample = clipped[i]
           /\ out[i] = clipped[i]

\* C10, restricted to objects whose every stored rate was > 0
C10_ClipperMemoryAtPositiveRates ==
    (\A i \in 1..Len(rates) : rates[i] > 0) => C10_ClipperMemoryIsLastOutput

====
